---- MODULE Spec2Model ----
(***************************************************************************)
(* Guardrail filter chain and per-session chat history of the chat         *)
(* services (app/services/chat.py, langchain_chat.py, groq_chat.py).       *)
(*                                                                         *)
(* SpecFilters    : one apply_input_filters call, its filter tasks         *)
(*                  finishing in any order.                                *)
(* Spec           : chat turns (handle_chat) running concurrently on one   *)
(*                  service object, suspended at their awaits.             *)
(* SpecEndpoint   : requests to the chat endpoint (app/routers/api.py),    *)
(*                  each served by the service object it constructs.       *)
(* SpecEvaluators : one evaluate_response call of an evaluator service     *)
(*                  (app/services/evaluators.py,                           *)
(*                  response_evaluator_service.py) and the forwarding of   *)
(*                  its outcomes (app/services/langsmith_client.py).       *)
(* SpecFeedback   : human feedback submissions and their normalization.    *)
(* SpecBackground : chat turns of a traced service and the evaluation      *)
(*                  tasks they create.                                     *)
(* SpecTrace      : one call of an evaluation method of LangSmithClient    *)
(*                  and the feedback it adds to the trace.                 *)
(* SpecPool       : LLMManager objects and the get_llm calls made on them  *)
(*                  (app/services/llm_manager.py).                         *)
(***************************************************************************)
EXTENDS Integers, Sequences, FiniteSets, TLC

VARIABLES
    input_filters,      \* self.config["input_filters"]: the configured FilterSpecs, in order
    classifier_out,     \* what each filter's classifier call produced
    results,            \* the slots of asyncio.gather, one per filter, in configuration order
    completion_order,   \* the filter indices in the order their tasks finished
    filter_result,      \* the tuple apply_input_filters returned (<<>> before it returns)
    system_prompt,      \* self.system_prompt ("" when not configured)
    max_history,        \* self.max_history
    chat_history,       \* self.chat_history: session id -> list of messages
    turns,              \* the handle_chat calls: position, session id, locals
    llm_input,          \* the message list each main LLM call was given
    requests,           \* the calls of chat_chatbot_endpoint: position, locals, service object
    evaluator_service,  \* the class whose evaluate_response is running
    evaluator_configs,  \* its configured evaluators, in configuration order
    evaluators_arg,     \* the `evaluators` argument of the call
    evaluators_to_run,  \* the evaluators the loop goes through, in order
    evaluator_out,      \* what the evaluator invocations made so far produced, in loop order
    eval_results,       \* the `results` dict of the call: evaluator name -> record
    eval_pc,            \* where the call is: running, returned, raised, forwarded
    created_feedback,   \* the create_feedback calls the trace store received for the outcomes
    feedback_count,     \* how many human feedback submissions were handled
    last_feedback,      \* the last submission, and what the trace store received for it
    trace_call,         \* the running call of a LangSmithClient evaluation method: position, locals
    trace_store,        \* the create_feedback calls the LangSmith client was given, in order
    tracing,            \* self.langsmith_evaluator is set and the turn has a run tree
    tasks,              \* the evaluation tasks handle_chat created: turn -> position
    managers,           \* the LLMManager objects: each one's _llm_cache, key -> client handle
    handed              \* the get_llm calls answered so far: manager, key, handle returned

filter_vars == <<classifier_out, results, completion_order, filter_result>>
chat_vars == <<system_prompt, max_history, chat_history, turns, llm_input>>
endpoint_vars == <<requests>>
eval_vars == <<evaluator_service, evaluator_configs, evaluators_arg, evaluators_to_run,
               evaluator_out, eval_results, eval_pc, created_feedback>>
feedback_vars == <<feedback_count, last_feedback>>
trace_vars == <<trace_call, trace_store>>
task_vars == <<tracing, tasks>>
pool_vars == <<managers, handed>>
aux_vars == <<trace_vars, task_vars, pool_vars>>
other_vars == <<endpoint_vars, eval_vars, feedback_vars, aux_vars>>
vars == <<input_filters, filter_vars, chat_vars, other_vars>>

----------------------------------------------------------------------------
(* Bounds                                                                  *)

MaxFilters == 2         \* longest configured filter chain
MaxTurns == 3           \* handle_chat calls in one behaviour
MaxHistoryBound == 4    \* largest configured max_history

----------------------------------------------------------------------------
(* Python values                                                           *)

\* A key that a dict does not hold.
Missing == "<missing>"

\* dict.get(key, default)
Get(value, default) == IF value = Missing THEN default ELSE value

Min(S) == CHOOSE x \in S : \A y \in S : x <= y

\* Python values that are told apart by their type at run time.

\* None, a str, an int, a float (the quotient num / den), and a list, of
\* which the model keeps the set of its items.
PyStr(s) == [py |-> "str", str |-> s]
PyInt(n) == [py |-> "int", int |-> n]
PyFloat(n, d) == [py |-> "float", num |-> n, den |-> d]
PyNone == [py |-> "none"]
PyList(items) == [py |-> "list", items |-> items]

\* isinstance(x, (int, float))
IsNumber(x) == x.py \in {"int", "float"}

\* A number as a quotient of integers.
Numerator(x) == IF x.py = "int" THEN x.int ELSE x.num
Denominator(x) == IF x.py = "int" THEN 1 ELSE x.den

\* x == y for two Python values: numbers compare by value (1 == 1.0).
PyEq(x, y) ==
    IF IsNumber(x) /\ IsNumber(y)
    THEN Numerator(x) * Denominator(y) = Numerator(y) * Denominator(x)
    ELSE x = y

\* x <= y for two numbers.
PyLeq(x, y) == Numerator(x) * Denominator(y) <= Numerator(y) * Denominator(x)

\* d.get(key, default) for a dict d: a function from its keys.
dict_get(d, key, default) == IF key \in DOMAIN d THEN d[key] ELSE default

\* The dict d without the keys outside `keys`.
Restrict(d, keys) == [k \in DOMAIN d \cap keys |-> d[k]]

----------------------------------------------------------------------------
(* The parts of the state a specification does not use                     *)

InitEndpointIdle == requests = <<>>

InitEvaluatorsIdle ==
    /\ evaluator_service = ""
    /\ evaluator_configs = <<>>
    /\ evaluators_arg = PyNone
    /\ evaluators_to_run = <<>>
    /\ evaluator_out = <<>>
    /\ eval_results = <<>>
    /\ eval_pc = "idle"
    /\ created_feedback = <<>>

InitFeedbackIdle ==
    /\ feedback_count = 0
    /\ last_feedback = PyNone

\* No call of a LangSmithClient evaluation method.
NoCall == [pc |-> "idle"]

InitTraceIdle ==
    /\ trace_call = NoCall
    /\ trace_store = <<>>

InitTasksIdle ==
    /\ tracing = FALSE
    /\ tasks = <<>>

InitPoolIdle ==
    /\ managers = <<>>
    /\ handed = <<>>

InitAuxIdle == InitTraceIdle /\ InitTasksIdle /\ InitPoolIdle

----------------------------------------------------------------------------
(* Filter chain: configuration                                             *)

ToxicityFilter ==
    [name |-> "toxicity_filter", system_prompt |-> "toxicity prompt",
     template_response |-> "toxicity template"]

FinancialAdviceFilter ==
    [name |-> "financial_advice_filter", system_prompt |-> "advice prompt",
     template_response |-> "advice template"]

\* A FilterSpec that leaves out every optional key and the system prompt.
BareFilter ==
    [name |-> Missing, system_prompt |-> Missing, template_response |-> Missing]

\* A FilterSpec with a system prompt and nothing else.
UnnamedFilter ==
    [name |-> Missing, system_prompt |-> "unnamed prompt", template_response |-> Missing]

FilterConfigs == {ToxicityFilter, FinancialAdviceFilter, BareFilter, UnnamedFilter}

RECURSIVE SeqsUpTo(_, _)
SeqsUpTo(S, n) ==
    IF n = 0 THEN {<<>>}
    ELSE LET shorter == SeqsUpTo(S, n - 1)
         IN  shorter \cup {Append(s, x) : s \in {q \in shorter : Len(q) = n - 1}, x \in S}

FilterChains == SeqsUpTo(FilterConfigs, MaxFilters)

----------------------------------------------------------------------------
(* Filter chain: one classifier call                                       *)

\* What `await filter_chain.ainvoke(...)` can produce: the LLM call raises,
\* JsonOutputParser raises, the JSON is not an object, or it is an object
\* whose keys hold whatever the classifier wrote.
ClassifierDecisions == {"safe", "danger", "unsafe", Missing}
ClassifierEvaluations == {"rationale", Missing}

ClassifierOutcomes ==
    {[kind |-> k, decision |-> Missing, evaluation |-> Missing] :
        k \in {"llm_error", "parse_error", "not_a_dict"}}
    \cup
    {[kind |-> "dict", decision |-> d, evaluation |-> e] :
        d \in ClassifierDecisions, e \in ClassifierEvaluations}

DefaultTemplate == "Sorry, I can't help with that."

\* The fail-closed variant of the except branch.
filter_failure_closed(e) == <<"danger", <<"Filter error: ", e>>, "">>

\* The except branch of _run_single_filter.
filter_failure(e) == <<"safe", <<"Filter error: ", e>>, "">>

\* _run_single_filter: the tuple one filter task returns.  A text is the
\* sequence of the pieces it is formatted from; "" is the empty sequence.
run_single_filter(filter_config, out) ==
    IF filter_config.system_prompt = Missing THEN filter_failure("KeyError")
    ELSE IF out.kind = "dict"
    THEN << Get(out.decision, "safe"),
            << Get(filter_config.name, "filter"), ": ", Get(out.evaluation, "") >>,
            Get(filter_config.template_response, DefaultTemplate) >>
    ELSE filter_failure(out.kind)

----------------------------------------------------------------------------
(* Filter chain: aggregation                                               *)

\* The list asyncio.gather hands back, ordered by completion.
gather_by_completion(slots, order) ==
    [k \in 1..Len(order) |-> slots[order[k]]]

\* asyncio.gather(*filter_tasks, return_exceptions=True): the results in the
\* order the tasks were given, whatever order they finished in.
asyncio_gather(slots, order) == slots

IsException(result) == Len(result) = 1

\* The scan of apply_input_filters that stops at the first non-safe result.
RECURSIVE first_not_safe(_, _)
first_not_safe(rs, i) ==
    IF i > Len(rs) THEN <<"safe", <<>>, "">>
    ELSE IF IsException(rs[i]) THEN first_not_safe(rs, i + 1)
    ELSE IF rs[i][1] # "safe" THEN rs[i]
    ELSE first_not_safe(rs, i + 1)

\* The loop of apply_input_filters from index i on: the first result whose
\* decision is "danger", else ("safe", "", "").
RECURSIVE first_danger(_, _)
first_danger(rs, i) ==
    IF i > Len(rs) THEN <<"safe", <<>>, "">>
    ELSE IF IsException(rs[i]) THEN first_danger(rs, i + 1)
    ELSE IF rs[i][1] = "danger" THEN rs[i]
    ELSE first_danger(rs, i + 1)

apply_input_filters(slots, order) == first_danger(asyncio_gather(slots, order), 1)

----------------------------------------------------------------------------
(* Filter chain: the concurrent call                                       *)

\* A gather slot, or a returned tuple, that is not there yet.
Pending == <<>>

\* The classifier call of a filter whose task has not finished.
Outstanding == [kind |-> "outstanding", decision |-> Missing, evaluation |-> Missing]

FilterIdx == 1..Len(input_filters)

AllFiltersDone == \A i \in FilterIdx : results[i] # Pending

\* The filters whose classifier answered with decision "danger".
ReportedDanger ==
    {i \in FilterIdx :
        /\ classifier_out[i] # Outstanding
        /\ input_filters[i].system_prompt # Missing
        /\ classifier_out[i].kind = "dict"
        /\ classifier_out[i].decision = "danger"}

\* The filters whose run failed: no prompt, a raising call, unusable output.
Failed(i) ==
    /\ classifier_out[i] # Outstanding
    /\ \/ input_filters[i].system_prompt = Missing
       \/ classifier_out[i].kind # "dict"

\* Filter task i finishes: its classifier call produced `out`.
FilterTaskCompletes(i, out) ==
    /\ filter_result = Pending
    /\ results[i] = Pending
    /\ classifier_out' = [classifier_out EXCEPT ![i] = out]
    /\ results' = [results EXCEPT ![i] = run_single_filter(input_filters[i], out)]
    /\ completion_order' = Append(completion_order, i)
    /\ UNCHANGED <<input_filters, filter_result, chat_vars, other_vars>>

\* gather returns and apply_input_filters scans the results.
GatherReturns ==
    /\ filter_result = Pending
    /\ AllFiltersDone
    /\ filter_result' = apply_input_filters(results, completion_order)
    /\ UNCHANGED <<input_filters, classifier_out, results, completion_order, chat_vars,
                   other_vars>>

InitChatIdle ==
    /\ system_prompt = ""
    /\ max_history = 1
    /\ chat_history = <<>>
    /\ turns = <<>>
    /\ llm_input = <<>>

InitFilters ==
    /\ input_filters \in FilterChains
    /\ classifier_out = [i \in FilterIdx |-> Outstanding]
    /\ results = [i \in FilterIdx |-> Pending]
    /\ completion_order = <<>>
    /\ filter_result = Pending
    /\ InitChatIdle
    /\ InitEndpointIdle /\ InitEvaluatorsIdle /\ InitFeedbackIdle /\ InitAuxIdle

NextFilters ==
    \/ \E i \in FilterIdx, out \in ClassifierOutcomes : FilterTaskCompletes(i, out)
    \/ GatherReturns

SpecFilters == InitFilters /\ [][NextFilters]_vars

----------------------------------------------------------------------------
(* Session history: messages and the list operations of handle_chat        *)

\* The query of each handle_chat call, as its sequence of characters.
Whitespace == {" ", "\t", "\n"}
Queries ==
    << <<" ", "h", "i", " ">>, <<"h", "i">>, <<"\n", "h", " ", "i">>,
       <<" ">>, <<"h", "i", "\t">>, <<>> >>

\* str.strip(): the text without its leading and trailing whitespace.
RECURSIVE lstrip(_)
lstrip(text) ==
    IF text # <<>> /\ Head(text) \in Whitespace THEN lstrip(Tail(text)) ELSE text
RECURSIVE rstrip(_)
rstrip(text) ==
    IF text # <<>> /\ text[Len(text)] \in Whitespace
    THEN rstrip(SubSeq(text, 1, Len(text) - 1)) ELSE text
strip(text) == rstrip(lstrip(text))

\* A message, tagged with the turn that added it.
SystemMessage(t) == [role |-> "system", turn |-> t]
HumanMessage(t) == [role |-> "user", turn |-> t, content |-> strip(Queries[t])]
AIMessage(t) == [role |-> "assistant", turn |-> t]

ConfiguredSystemPrompt == "You are a banking assistant."

\* Session ids a caller sends; NoSessionId is a request without one.
ClientSessionIds == {"session-a"}
NoSessionId == ""

\* str(uuid.uuid4()) of the n-th call: a fresh id.
UUIDs == <<"uuid-1", "uuid-2", "uuid-3", "uuid-4", "uuid-5", "uuid-6">>

\* response.content of the main LLM call of the n-th call.
Completions == <<"completion-1", "completion-2", "completion-3",
                 "completion-4", "completion-5", "completion-6">>

\* self.chat_history.setdefault(session_id, [])
setdefault(history_by_session, sid) ==
    IF sid \in DOMAIN history_by_session THEN history_by_session
    ELSE history_by_session @@ (sid :> <<>>)

HasSystemMessage(history) ==
    \E k \in 1..Len(history) : history[k].role = "system"

\* The insert without the scan for an existing system message.
insert_system_unchecked(history, t) ==
    IF system_prompt # "" THEN <<SystemMessage(t)>> \o history ELSE history

\* "Add system prompt if not present and configured"
insert_system(history, t) ==
    IF system_prompt # "" /\ ~HasSystemMessage(history)
    THEN <<SystemMessage(t)>> \o history
    ELSE history

\* history[-n:] for n > 0
LastN(history, n) ==
    IF n >= Len(history) THEN history
    ELSE SubSeq(history, Len(history) - n + 1, Len(history))

\* The trim that keeps the tail only.
trim_history_tail_only(history) ==
    IF Len(history) > max_history THEN LastN(history, max_history) ELSE history

\* "Trim history to the most recent messages (preserving system prompt)"
trim_history(history) ==
    IF Len(history) > max_history
    THEN LET new_history ==
                 IF system_prompt # "" /\ Len(history) > 0 /\ history[1].role = "system"
                 THEN <<history[1]>> ELSE <<>>
             tail_size == max_history - Len(new_history)
         IN  IF tail_size > 0 THEN new_history \o LastN(history, tail_size)
             ELSE new_history
    ELSE history

\* The history of a blocked turn when the user message is stored before the
\* filters are consulted.
history_when_blocked_stored(history_by_session, sid, t) ==
    LET with_session == setdefault(history_by_session, sid)
    IN  [with_session EXCEPT ![sid] = Append(@, HumanMessage(t))]

\* The blocked path of handle_chat returns before the history is touched.
history_when_blocked(history_by_session, sid, t) == history_by_session

\* The user message stored in one list that every session shares.
history_before_generation_shared(history_by_session, sid, t) ==
    LET with_session == setdefault(history_by_session, sid)
    IN  [s \in DOMAIN with_session |->
            Append(insert_system(with_session[s], t), HumanMessage(t))]

\* From setdefault to the user message: what handle_chat stores before it
\* awaits the main LLM.
history_before_generation(history_by_session, sid, t) ==
    LET with_session == setdefault(history_by_session, sid)
    IN  [with_session EXCEPT ![sid] = Append(insert_system(@, t), HumanMessage(t))]

\* The trim applied before the assistant message is appended.
history_after_generation_trim_first(history_by_session, sid, t) ==
    [history_by_session EXCEPT ![sid] = Append(trim_history(@), AIMessage(t))]

\* From the assistant message to the trim: what handle_chat stores after the
\* main LLM returned.
history_after_generation(history_by_session, sid, t) ==
    [history_by_session EXCEPT ![sid] = trim_history(Append(@, AIMessage(t)))]

----------------------------------------------------------------------------
(* Chat turns                                                              *)

TurnIdx == 1..Len(turns)

NoResponse == ""

\* The filter chains the chat services of this model are configured with.
ChatFilterChains == {<<>>, <<ToxicityFilter, FinancialAdviceFilter>>}

\* The classifier outcomes a chat turn's filters are driven with: a safe
\* verdict and a danger verdict.
TurnClassifierOutcomes ==
    {o \in ClassifierOutcomes :
        o.kind = "dict" /\ o.evaluation = "rationale" /\ o.decision \in {"safe", "danger"}}

\* "if self.langsmith_evaluator and run_tree: asyncio.create_task(...)":
\* the evaluation of the turn is handed to the event loop with the session
\* id and the completion, and is not awaited.
create_task(task_map, t, session_id, content) ==
    IF tracing
    THEN task_map @@ (t :> [pc |-> "pending", session_id |-> session_id,
                            response |-> content, result |-> PyNone])
    ELSE task_map

\* The session histories after a task that stores its evaluation with the
\* session it was given.
history_after_task_stored(history_by_session, task) ==
    [history_by_session EXCEPT ![task.session_id] = Append(@, task.result)]

\* evaluate_and_add_feedback is given strings and the run id: it holds no
\* reference to self.chat_history.
history_after_task(history_by_session, task) == history_by_session

\* handle_chat is called: the session id is fixed and the turn suspends in
\* apply_input_filters.
StartTurn(session_id) ==
    /\ Len(turns) < MaxTurns
    /\ turns' = Append(turns,
                  [pc |-> "filtering",
                   session_id |-> IF session_id = NoSessionId
                                  THEN UUIDs[Len(turns) + 1] ELSE session_id,
                   filter_result |-> Pending,
                   inserted_system |-> FALSE,
                   response |-> NoResponse])
    /\ UNCHANGED <<input_filters, filter_vars, system_prompt, max_history,
                   chat_history, llm_input, other_vars>>

\* apply_input_filters returns to handle_chat, the classifiers having
\* produced `outs`.  On danger the turn returns the template response; else
\* it stores the user message and calls the main LLM with the history list.
FiltersReturn(t, outs) ==
    LET slots == [i \in FilterIdx |-> run_single_filter(input_filters[i], outs[i])]
        fr == apply_input_filters(slots, [i \in FilterIdx |-> i])
        sid == turns[t].session_id
        prior == setdefault(chat_history, sid)[sid]
        stored == history_before_generation(chat_history, sid, t)
    IN  /\ turns[t].pc = "filtering"
        /\ IF fr[1] = "danger"
           THEN /\ turns' = [turns EXCEPT ![t].pc = "blocked",
                                          ![t].filter_result = fr,
                                          ![t].response = fr[3]]
                /\ chat_history' = history_when_blocked(chat_history, sid, t)
                /\ UNCHANGED llm_input
           ELSE /\ turns' = [turns EXCEPT
                                ![t].pc = "generating",
                                ![t].filter_result = fr,
                                ![t].inserted_system =
                                    (Len(stored[sid]) = Len(prior) + 2)]
                /\ chat_history' = stored
                /\ llm_input' = llm_input @@ (t :> stored[sid])
        /\ UNCHANGED <<input_filters, filter_vars, system_prompt, max_history, other_vars>>

\* The main LLM call returns: the assistant message is stored, the history
\* is trimmed, the evaluation task is created and handle_chat returns the
\* completion.
LLMReturns(t) ==
    /\ turns[t].pc = "generating"
    /\ chat_history' = history_after_generation(chat_history, turns[t].session_id, t)
    /\ turns' = [turns EXCEPT ![t].pc = "completed", ![t].response = Completions[t]]
    /\ tasks' = create_task(tasks, t, turns[t].session_id, Completions[t])
    /\ UNCHANGED <<input_filters, filter_vars, system_prompt, max_history, llm_input,
                   endpoint_vars, eval_vars, feedback_vars, trace_vars, tracing,
                   pool_vars>>

\* The main LLM call raises: the exception leaves handle_chat.
LLMRaises(t) ==
    /\ turns[t].pc = "generating"
    /\ turns' = [turns EXCEPT ![t].pc = "failed"]
    /\ UNCHANGED <<input_filters, filter_vars, system_prompt, max_history,
                   chat_history, llm_input, other_vars>>

\* The event loop runs a created task to its end: evaluate_and_add_feedback
\* returns its results, or the error dict of its except branch when
\* `failed`; nothing awaits the value.
TaskRuns(t, failed) ==
    /\ t \in DOMAIN tasks
    /\ tasks[t].pc = "pending"
    /\ LET task == [tasks[t] EXCEPT
                       !.pc = "done",
                       !.result = [role |-> "evaluation", turn |-> t, error |-> failed]]
       IN  /\ tasks' = [tasks EXCEPT ![t] = task]
           /\ chat_history' = history_after_task(chat_history, task)
    /\ UNCHANGED <<input_filters, filter_vars, system_prompt, max_history, turns,
                   llm_input, endpoint_vars, eval_vars, feedback_vars, trace_vars,
                   tracing, pool_vars>>

InitFiltersIdle ==
    /\ classifier_out = <<>>
    /\ results = <<>>
    /\ completion_order = <<>>
    /\ filter_result = Pending

Init ==
    /\ input_filters \in ChatFilterChains
    /\ system_prompt \in {"", ConfiguredSystemPrompt}
    /\ max_history \in 1..MaxHistoryBound
    /\ chat_history = <<>>
    /\ turns = <<>>
    /\ llm_input = <<>>
    /\ InitFiltersIdle
    /\ InitEndpointIdle /\ InitEvaluatorsIdle /\ InitFeedbackIdle /\ InitAuxIdle

Next ==
    \/ \E sid \in ClientSessionIds \cup {NoSessionId} : StartTurn(sid)
    \/ \E t \in TurnIdx, outs \in [FilterIdx -> TurnClassifierOutcomes] : FiltersReturn(t, outs)
    \/ \E t \in TurnIdx : LLMReturns(t)
    \/ \E t \in TurnIdx : LLMRaises(t)

Spec == Init /\ [][Next]_vars

\* A chat service whose turns are traced: every completed turn creates its
\* evaluation task.  The turns are those of one client session.
InitBackground ==
    /\ input_filters = <<>>
    /\ system_prompt = ConfiguredSystemPrompt
    /\ max_history = MaxHistoryBound
    /\ chat_history = <<>>
    /\ turns = <<>>
    /\ llm_input = <<>>
    /\ tracing = TRUE
    /\ tasks = <<>>
    /\ InitFiltersIdle
    /\ InitEndpointIdle /\ InitEvaluatorsIdle /\ InitFeedbackIdle
    /\ InitTraceIdle /\ InitPoolIdle

NextBackground ==
    \/ \E sid \in ClientSessionIds : StartTurn(sid)
    \/ \E t \in TurnIdx, outs \in [FilterIdx -> TurnClassifierOutcomes] : FiltersReturn(t, outs)
    \/ \E t \in TurnIdx : LLMReturns(t)
    \/ \E t \in TurnIdx : LLMRaises(t)
    \/ \E t \in TurnIdx, failed \in BOOLEAN : TaskRuns(t, failed)

SpecBackground == InitBackground /\ [][NextBackground]_vars

----------------------------------------------------------------------------
(* Filter chain: properties                                                *)

FilterCallReturned == filter_result # Pending

\* The tuple filter i returns when its classifier reports danger.
DangerTuple(i) ==
    << "danger",
       << IF input_filters[i].name = Missing THEN "filter" ELSE input_filters[i].name,
          ": ",
          IF classifier_out[i].evaluation = Missing THEN "" ELSE classifier_out[i].evaluation >>,
       IF input_filters[i].template_response = Missing
       THEN DefaultTemplate ELSE input_filters[i].template_response >>

SafeTuple == <<"safe", <<>>, "">>

\* C1: when two or more filters report danger, apply_input_filters returns
\* the outcome (name-prefixed evaluation text, template response) of the
\* danger-reporting filter with the lowest configuration index, whatever the
\* order in which the filter tasks completed.
C1_FirstBlockerDeterminism ==
    (FilterCallReturned /\ Cardinality(ReportedDanger) >= 2)
        => filter_result = DangerTuple(Min(ReportedDanger))

\* Filters [A, B] with different names both report danger and B finished first.
C1_Witness ==
    /\ FilterCallReturned
    /\ Len(input_filters) = 2
    /\ input_filters[1] = ToxicityFilter
    /\ input_filters[2] = FinancialAdviceFilter
    /\ ReportedDanger = {1, 2}
    /\ completion_order = <<2, 1>>
    /\ filter_result[2][1] = "toxicity_filter"

\* C2: when no configured filter reports danger, apply_input_filters returns
\* exactly ("safe", "", ""), for 0, 1 or N filters, and none of the filters'
\* own evaluation texts or template responses.
C2_SafeAggregation ==
    (FilterCallReturned /\ ReportedDanger = {}) => filter_result = SafeTuple

\* Two filters ran, neither reported danger, and both produced an evaluation
\* text and a template of their own, one of them with an unknown decision.
C2_Witness ==
    /\ FilterCallReturned
    /\ Len(input_filters) = 2
    /\ ReportedDanger = {}
    /\ \A i \in FilterIdx : results[i][2] # <<>> /\ results[i][3] # ""
    /\ \E i \in FilterIdx : results[i][1] = "unsafe"
    /\ filter_result = SafeTuple

\* C3: a filter whose classifier call raises, or whose output cannot be
\* used, counts as a filter that reported safe: the aggregate is the outcome
\* of the lowest-index filter that did report danger, else ("safe", "", ""),
\* and apply_input_filters returns a tuple rather than raising.
C3_FailOpen ==
    (FilterCallReturned /\ \E i \in FilterIdx : Failed(i))
        => /\ Len(filter_result) = 3
           /\ filter_result =
                IF ReportedDanger = {} THEN SafeTuple
                ELSE DangerTuple(Min(ReportedDanger))

\* The first filter's classifier call raised and the second reported danger.
C3_Witness ==
    /\ FilterCallReturned
    /\ Len(input_filters) = 2
    /\ input_filters[1].system_prompt # Missing
    /\ classifier_out[1].kind = "llm_error"
    /\ ReportedDanger = {2}
    /\ filter_result[1] = "danger"

\* C4: the decision of every filter run's tuple, and of the aggregate, is
\* exactly "safe" or "danger", whatever the classifier put in `decision`.
C4_DecisionSafeOrDanger ==
    /\ \A i \in FilterIdx :
          results[i] # Pending => results[i][1] \in {"safe", "danger"}
    /\ FilterCallReturned => filter_result[1] \in {"safe", "danger"}

----------------------------------------------------------------------------
(* Chat turns: properties                                                  *)

TurnsOf(s) == {t \in TurnIdx : turns[t].session_id = s}

\* No turn of session s is suspended inside handle_chat.
BetweenTurns(s) ==
    \A t \in TurnsOf(s) : turns[t].pc \in {"blocked", "completed", "failed"}

\* The messages turn t has in the stored history of any session.
StoredBy(t) ==
    {<<s, k>> \in UNION {{s} \X (1..Len(chat_history[s])) : s \in DOMAIN chat_history} :
        chat_history[s][k].turn = t}

TemplateOf(i) ==
    IF input_filters[i].template_response = Missing
    THEN DefaultTemplate ELSE input_filters[i].template_response

\* C5: a blocked turn returns the triggering filter's template response,
\* never calls the main LLM, and the step that blocks it leaves every
\* session's history as it was, with nothing of the turn stored.
C5_BlockedTurnLeavesHistory ==
    /\ [](\A t \in TurnIdx : turns[t].pc = "blocked" =>
            /\ turns[t].filter_result[1] = "danger"
            /\ turns[t].response = turns[t].filter_result[3]
            /\ \E i \in FilterIdx : turns[t].response = TemplateOf(i)
            /\ t \notin DOMAIN llm_input
            /\ StoredBy(t) = {})
    /\ [][\A t \in TurnIdx :
            (turns[t].pc = "filtering" /\ turns'[t].pc = "blocked")
                => (chat_history' = chat_history /\ llm_input' = llm_input)]_vars

\* One turn was blocked on a session that already holds an exchange, another
\* was the first turn of its session, which still has no history.
C5_Witness ==
    \E t, u \in TurnIdx :
        /\ turns[t].pc = "blocked" /\ turns[u].pc = "blocked"
        /\ turns[t].session_id \in DOMAIN chat_history
        /\ Len(chat_history[turns[t].session_id]) > 0
        /\ turns[u].session_id \notin DOMAIN chat_history
        /\ turns[u].response = "toxicity template"

\* C6: when the main LLM call of a turn raises, the session history is what
\* it was before the turn: nothing the turn added stays stored.
C6_AtomicTurnHistory ==
    \A t \in TurnIdx : turns[t].pc = "failed" => StoredBy(t) = {}

\* C7: between turns, a session's stored sequence has at most max_history
\* messages.
C7_HistoryBound ==
    \A s \in DOMAIN chat_history :
        BetweenTurns(s) => Len(chat_history[s]) <= max_history

\* C8: the step that completes a turn (assistant message stored, history
\* trimmed) leaves that turn's user message and completion as the last two
\* stored entries of its session.
C8_TrimKeepsCurrentExchange ==
    [][\A t \in TurnIdx :
          (turns[t].pc = "generating" /\ turns'[t].pc = "completed") =>
              LET h == chat_history'[turns[t].session_id]
              IN  /\ Len(h) >= 2
                  /\ h[Len(h) - 1] = HumanMessage(t)
                  /\ h[Len(h)] = AIMessage(t)]_vars

\* C9: every stored sequence holds at most one system message, at the head
\* if anywhere; with a system prompt configured, every session that has a
\* history has the system message at its head and exactly one turn of the
\* session inserted it.
C9_SingleLeadingSystemMessage ==
    \A s \in DOMAIN chat_history :
        LET h == chat_history[s]
            inserters == {t \in TurnsOf(s) : turns[t].inserted_system}
        IN  /\ \A k \in 1..Len(h) : h[k].role = "system" => k = 1
            /\ Cardinality(inserters) <= 1
            /\ system_prompt # "" =>
                  /\ Len(h) >= 1
                  /\ h[1].role = "system"
                  /\ Cardinality(inserters) = 1
            /\ system_prompt = "" => ~HasSystemMessage(h)

\* Two turns ran interleaved on one session, both completed, and the trim
\* dropped messages while the system message stayed at the head.
C9_Witness ==
    \E s \in DOMAIN chat_history :
        \E t, u \in TurnsOf(s) :
            /\ t < u
            /\ turns[t].pc = "completed" /\ turns[u].pc = "completed"
            /\ Len(llm_input[u]) > 1
            /\ llm_input[u][Len(llm_input[u]) - 1] = HumanMessage(t)
            /\ max_history >= 3
            /\ Len(chat_history[s]) = max_history
            /\ Len(chat_history[s]) < 5
            /\ chat_history[s][1].role = "system"

\* The user messages of list h that are not followed by their completion,
\* leaving aside the user message `own` of the call that is reading h and
\* the messages of turns whose LLM call raised.
Unanswered(h, own) ==
    {k \in 1..Len(h) :
        /\ h[k].role = "user"
        /\ h[k].turn # own
        /\ turns[h[k].turn].pc # "failed"
        /\ ~(k < Len(h) /\ h[k + 1] = AIMessage(h[k].turn))}

\* C10: turns of one session do not interleave: every stored user message
\* is followed at once by the completion generated for it (the message of
\* the one turn in flight excepted), and each LLM call is given whole
\* earlier exchanges plus its own user message.
C10_SerializedSessionAccess ==
    /\ \A s \in DOMAIN chat_history :
          /\ Cardinality({t \in TurnsOf(s) : turns[t].pc = "generating"}) <= 1
          /\ \A t \in TurnsOf(s) :
                turns[t].pc = "generating" => Unanswered(chat_history[s], t) = {}
          /\ BetweenTurns(s) => Unanswered(chat_history[s], 0) = {}
    /\ \A t \in DOMAIN llm_input :
          /\ llm_input[t][Len(llm_input[t])] = HumanMessage(t)
          /\ Unanswered(llm_input[t], t) = {}


----------------------------------------------------------------------------
(* Chat endpoint: chat_chatbot_endpoint of app/routers/api.py              *)

MaxRequests == 2        \* requests to the chat endpoint in one behaviour

ReqIdx == 1..Len(requests)

\* bool(chat_service.config.get("input_filters"))
has_guardrails == Len(input_filters) > 0

\* "if not session_id: session_id = str(uuid.uuid4())" of handle_chat, for
\* request r.
session_id_of_handle_chat(session_id, r) ==
    IF session_id = NoSessionId THEN UUIDs[r] ELSE session_id

\* "Handle session ID" of the endpoint: `local` is the endpoint's
\* session_id variable, Missing while it is not among locals().
handle_session_id(requested, local, r) ==
    IF requested = NoSessionId
    THEN IF local # Missing THEN local ELSE UUIDs[r]
    ELSE requested

\* The requests that have been answered with a ChatResponse.
Responded == {r \in ReqIdx : requests[r].pc = "responded"}

\* The session ids a caller can send: its own, none, or one a response
\* carried.
SendableSessionIds ==
    ClientSessionIds \cup {NoSessionId}
        \cup {requests[q].returned_session_id : q \in Responded}

\* str(e) of the exception the main LLM call raises.
LLMExceptionText == "Error code: 500 - internal server error"

\* One apply_input_filters call: every filter task that gets as far as its
\* chain invokes the filter's classifier once.
classifiers_invoked(calls) ==
    [i \in FilterIdx |->
        calls[i] + IF input_filters[i].system_prompt # Missing THEN 1 ELSE 0]

\* The endpoint is called: ChatService(config_path) is constructed, with an
\* empty chat_history.  With guardrails the request suspends in the
\* endpoint's own apply_input_filters call; without, it enters handle_chat.
ReceiveChatRequest(sid) ==
    /\ Len(requests) < MaxRequests
    /\ requests' = Append(requests,
           [pc |-> IF has_guardrails THEN "filtering" ELSE "handling",
            requested |-> sid,
            after |-> Responded,
            chat_history |-> <<>>,
            session_id |-> IF has_guardrails THEN Missing
                           ELSE session_id_of_handle_chat(sid, Len(requests) + 1),
            filter_triggered |-> FALSE,
            path |-> "",
            llm_input |-> <<>>,
            response |-> NoResponse,
            returned_session_id |-> Missing,
            classifier_calls |-> [i \in FilterIdx |-> 0],
            detail |-> ""])
    /\ UNCHANGED <<input_filters, filter_vars, chat_vars, eval_vars, feedback_vars, aux_vars>>

\* The endpoint's apply_input_filters call returns.  On danger the endpoint
\* answers with the template response; else it calls handle_chat, which
\* fixes the session id and suspends in its own apply_input_filters call.
EndpointFiltersReturn(r, outs) ==
    LET slots == [i \in FilterIdx |-> run_single_filter(input_filters[i], outs[i])]
        fr == apply_input_filters(slots, [i \in FilterIdx |-> i])
        req == [requests[r] EXCEPT !.classifier_calls = classifiers_invoked(@)]
    IN  /\ req.pc = "filtering"
        /\ requests' = [requests EXCEPT ![r] =
               IF fr[1] = "danger"
               THEN [req EXCEPT !.pc = "responded",
                                !.path = "blocked",
                                !.filter_triggered = TRUE,
                                !.response = fr[3],
                                !.session_id =
                                    handle_session_id(req.requested, req.session_id, r),
                                !.returned_session_id =
                                    handle_session_id(req.requested, req.session_id, r)]
               ELSE [req EXCEPT !.pc = "handling",
                                !.session_id =
                                    session_id_of_handle_chat(req.requested, r)]]
        /\ UNCHANGED <<input_filters, filter_vars, chat_vars, eval_vars, feedback_vars, aux_vars>>

\* apply_input_filters returns inside handle_chat.  On danger handle_chat
\* returns the template response and the endpoint answers with it; else the
\* user message is stored in the service object's history and the main LLM
\* is called with that list.
HandleChatFiltersReturn(r, outs) ==
    LET slots == [i \in FilterIdx |-> run_single_filter(input_filters[i], outs[i])]
        fr == apply_input_filters(slots, [i \in FilterIdx |-> i])
        req == [requests[r] EXCEPT !.classifier_calls = classifiers_invoked(@)]
        stored == history_before_generation(req.chat_history, req.session_id, r)
    IN  /\ req.pc = "handling"
        /\ requests' = [requests EXCEPT ![r] =
               IF fr[1] = "danger"
               THEN [req EXCEPT !.pc = "responded",
                                !.path = "blocked_in_handle_chat",
                                !.chat_history =
                                    history_when_blocked(req.chat_history, req.session_id, r),
                                !.response = fr[3],
                                !.returned_session_id =
                                    handle_session_id(req.requested, req.session_id, r)]
               ELSE [req EXCEPT !.pc = "generating",
                                !.chat_history = stored,
                                !.llm_input = stored[req.session_id]]]
        /\ UNCHANGED <<input_filters, filter_vars, chat_vars, eval_vars, feedback_vars, aux_vars>>

\* The main LLM call returns: handle_chat stores the assistant message,
\* trims and returns; the endpoint answers with the completion.
EndpointLLMReturns(r) ==
    LET req == requests[r]
    IN  /\ req.pc = "generating"
        /\ requests' = [requests EXCEPT ![r] =
               [req EXCEPT !.pc = "responded",
                           !.path = "completed",
                           !.chat_history =
                               history_after_generation(req.chat_history, req.session_id, r),
                           !.response = Completions[r],
                           !.returned_session_id =
                               handle_session_id(req.requested, req.session_id, r)]]
        /\ tasks' = create_task(tasks, r, req.session_id, Completions[r])
        /\ UNCHANGED <<input_filters, filter_vars, chat_vars, eval_vars, feedback_vars,
                       trace_vars, tracing, pool_vars>>

\* The main LLM call raises: the exception leaves handle_chat and the
\* endpoint turns it into HTTPException(status_code=500, detail=str(e)),
\* without a ChatResponse.
EndpointLLMRaises(r) ==
    /\ requests[r].pc = "generating"
    /\ requests' = [requests EXCEPT ![r].pc = "error", ![r].path = "failed",
                                    ![r].detail = LLMExceptionText]
    /\ UNCHANGED <<input_filters, filter_vars, chat_vars, eval_vars, feedback_vars, aux_vars>>

InitEndpoint ==
    /\ input_filters \in ChatFilterChains
    /\ system_prompt \in {"", ConfiguredSystemPrompt}
    /\ max_history \in 1..MaxHistoryBound
    /\ chat_history = <<>>
    /\ turns = <<>>
    /\ llm_input = <<>>
    /\ InitFiltersIdle
    /\ requests = <<>>
    /\ InitEvaluatorsIdle /\ InitFeedbackIdle /\ InitAuxIdle

NextEndpoint ==
    \/ \E sid \in SendableSessionIds : ReceiveChatRequest(sid)
    \/ \E r \in ReqIdx, outs \in [FilterIdx -> TurnClassifierOutcomes] :
           EndpointFiltersReturn(r, outs)
    \/ \E r \in ReqIdx, outs \in [FilterIdx -> TurnClassifierOutcomes] :
           HandleChatFiltersReturn(r, outs)
    \/ \E r \in ReqIdx : EndpointLLMReturns(r)
    \/ \E r \in ReqIdx : EndpointLLMRaises(r)

SpecEndpoint == InitEndpoint /\ [][NextEndpoint]_vars

----------------------------------------------------------------------------
(* Properties of the chat endpoint                                         *)

\* The earlier completed turns of the session request r names: answered
\* before r arrived, with the session id r carries.
EarlierTurns(r) ==
    {q \in requests[r].after :
        /\ requests[q].path = "completed"
        /\ requests[q].returned_session_id = requests[r].requested}

\* C11: the session history persists for the lifetime of the process: a chat
\* turn sent through the endpoint with the session id of earlier completed
\* turns is generated with their exchanges in the message list given to the
\* LLM.  Stated for the histories that are short enough not to be trimmed.
C11_SessionHistoryPersists ==
    \A r \in ReqIdx :
        (/\ requests[r].llm_input # <<>>
         /\ max_history >= 2 * Cardinality(EarlierTurns(r)) + 1)
        => \A q \in EarlierTurns(r) :
               /\ \E k \in 1..Len(requests[r].llm_input) :
                      requests[r].llm_input[k] = HumanMessage(q)
               /\ \E k \in 1..Len(requests[r].llm_input) :
                      requests[r].llm_input[k] = AIMessage(q)

\* What C12 says of the answer: a non-empty id, the request's own if it
\* carried one, and if not a new one: no other request sent it before it was
\* returned, and no other request was given it as a new id.
ReturnedSessionIdRight ==
    \A r \in Responded :
        LET rid == requests[r].returned_session_id
        IN  /\ rid \notin {NoSessionId, Missing}
            /\ requests[r].requested # NoSessionId => rid = requests[r].requested
            /\ requests[r].requested = NoSessionId
                   => \A q \in ReqIdx \ {r} :
                          /\ requests[q].requested = rid => r \in requests[q].after
                          /\ requests[q].returned_session_id = rid
                                 => requests[q].requested = rid

\* What C12 says of the order: the id exists before anything else is done
\* for the request.
SessionIdGeneratedFirst ==
    \A r \in ReqIdx :
        requests[r].requested = NoSessionId => requests[r].session_id # Missing

\* C12: every chat turn returns a non-empty session id: the one the request
\* carried, or else a new unique id generated before any other processing,
\* on the completed and on the blocked path alike.
C12_SessionIdIssuedFirst == ReturnedSessionIdRight /\ SessionIdGeneratedFirst


----------------------------------------------------------------------------
(* Evaluators: configuration and the results of the underlying evaluators  *)

MaxEvaluators == 2      \* most evaluators configured for one service
ScoreStringMax == 10    \* the score_string rating goes from 1 to this

FinancialAdviceEvaluator == [name |-> "financial_advice", type |-> "criteria"]
ToxicityEvaluator == [name |-> "toxicity", type |-> "score_string"]
HallucinationEvaluator == [name |-> "hallucination", type |-> "criteria"]
TopicAdherenceEvaluator == [name |-> "topic_adherence", type |-> "score_string"]

\* response_evaluators of the evaluator configuration file.
ConfiguredEvaluators ==
    <<FinancialAdviceEvaluator, ToxicityEvaluator,
      HallucinationEvaluator, TopicAdherenceEvaluator>>

\* The configurations a service is constructed with: never empty.
EvaluatorSuites ==
    {SubSeq(ConfiguredEvaluators, 1, n) : n \in 1..Min({MaxEvaluators, 4})}

EvaluatorServices == {"LLMEvaluator", "ResponseEvaluatorService"}

\* self.evaluators.keys()
EvaluatorNames == {evaluator_configs[i].name : i \in 1..Len(evaluator_configs)}

\* A name a caller asks for that no configured evaluator bears.
NotConfigured == "not_configured"

\* The `evaluators` argument: None, or a list of names, of which the code
\* uses emptiness and membership only.
EvaluatorsArgs ==
    {PyNone} \cup {PyList(names) : names \in SUBSET (EvaluatorNames \cup {NotConfigured})}

\* What the criteria chain returns for a verdict, and with any of the fields
\* value and score omitted.
CriteriaVerdicts ==
    {[value |-> PyStr("Y"), score |-> PyInt(1), reasoning |-> PyStr("reasoning")],
     [value |-> PyStr("N"), score |-> PyInt(0), reasoning |-> PyStr("reasoning")]}
CriteriaResults ==
    {Restrict(full, keys \cup {"reasoning"}) :
        full \in CriteriaVerdicts, keys \in SUBSET {"value", "score"}}

\* What the score_string chain returns: a rating, or no score field.
ScoreStringResults ==
    {[score |-> PyInt(n), reasoning |-> PyStr("reasoning")] : n \in 1..ScoreStringMax}
        \cup {[reasoning |-> PyStr("reasoning")]}

\* What awaiting aevaluate_strings produces: a result, or an exception.
Returns(result) == [kind |-> "returns", result |-> result]
Raises(exception) == [kind |-> "raises", exception |-> exception]
InvocationFailures == {Raises("OutputParserException"), Raises("Exception")}
ChainOutcomes(evaluator_type) ==
    InvocationFailures \cup {Returns(PyNone)}
        \cup {Returns(r) : r \in IF evaluator_type = "criteria"
                                 THEN CriteriaResults ELSE ScoreStringResults}

\* What the Groq completion call of ResponseEvaluatorService produces: an
\* exception, text that is not JSON, or a JSON object.
GroqOutcomes ==
    {Raises("Exception"),
     [kind |-> "text", content |-> "not json"],
     [kind |-> "json", parsed |-> [decision |-> PyStr("N"),
                                   evaluation |-> PyStr("reasoning")]]}

----------------------------------------------------------------------------
(* Evaluators: the functions of LLMEvaluator and ResponseEvaluatorService  *)

\* The score_string branch with the score defaulting to 0.
parse_score_string_default_0(result, evaluator_name) ==
    [decision |-> dict_get(result, "score", PyInt(1)),
     score |-> dict_get(result, "score", PyInt(0)),
     evaluation |-> dict_get(result, "reasoning", PyStr("")),
     evaluator |-> PyStr(evaluator_name)]

\* _parse_langchain_output, evaluator_type == "criteria"
parse_criteria(result, evaluator_name) ==
    [decision |-> dict_get(result, "value", PyStr("N")),
     score |-> dict_get(result, "score", PyInt(0)),
     evaluation |-> dict_get(result, "reasoning", PyStr("")),
     evaluator |-> PyStr(evaluator_name)]

\* _parse_langchain_output, evaluator_type == "score_string"
parse_score_string(result, evaluator_name) ==
    [decision |-> dict_get(result, "score", PyInt(1)),
     score |-> dict_get(result, "score", PyInt(1)),
     evaluation |-> dict_get(result, "reasoning", PyStr("")),
     evaluator |-> PyStr(evaluator_name)]

\* _parse_langchain_output: result.get raises on a result that is no dict.
parse_langchain_output(result, evaluator_type, evaluator_name) ==
    IF result = PyNone
    THEN [error |-> PyStr("parsing_failed"),
          details |-> PyStr("'NoneType' object has no attribute 'get'"),
          raw |-> PyStr("None"),
          evaluator |-> PyStr(evaluator_name)]
    ELSE IF evaluator_type = "criteria" THEN parse_criteria(result, evaluator_name)
    ELSE IF evaluator_type = "score_string" THEN parse_score_string(result, evaluator_name)
    ELSE [error |-> PyStr("unknown_evaluator_type"),
          raw |-> PyStr("result"),
          evaluator |-> PyStr(evaluator_name)]

\* The record LLMEvaluator.evaluate_response stores for one evaluator.
llm_evaluator_record(evaluator, out) ==
    IF out.kind = "returns"
    THEN parse_langchain_output(out.result, evaluator.type, evaluator.name)
    ELSE IF out.exception = "OutputParserException"
    THEN [error |-> PyStr("output_parser_error"),
          details |-> PyStr(out.exception),
          evaluator |-> PyStr(evaluator.name)]
    ELSE [error |-> PyStr("evaluation_failed"),
          details |-> PyStr(out.exception),
          evaluator |-> PyStr(evaluator.name)]

\* The record ResponseEvaluatorService.evaluate_response stores for one
\* evaluator whose completion call returned.
groq_evaluator_record(evaluator, out) ==
    IF out.kind = "json" THEN out.parsed
    ELSE [error |-> PyStr("failed_to_parse"), raw |-> PyStr(out.content)]

\* The selection that runs every configured evaluator.
select_all(configs, evaluators) == configs

\* "Determine which evaluators to run"
select_evaluators(configs, evaluators) ==
    IF evaluators = PyNone \/ evaluators = PyList({})
    THEN configs
    ELSE SelectSeq(configs, LAMBDA c : c.name \in evaluators.items)

----------------------------------------------------------------------------
(* Feedback normalizer: evaluator outcomes                                 *)

DefaultScale == 3       \* normalize_score's default scale

\* normalize_score(value, scale): float(value) / scale, and 0.0 for a value
\* float() rejects.
normalize_score(value, scale) ==
    IF IsNumber(value)
    THEN PyFloat(Numerator(value), Denominator(value) * scale)
    ELSE PyFloat(0, 1)

\* LangSmithClient._format_llm_feedback
format_llm_feedback(evaluator_name, evaluation_result) ==
    LET decision == dict_get(evaluation_result, "decision", PyNone)
        branch == IF decision \in {PyStr("YES"), PyStr("NO")} THEN "yes_no"
                  ELSE IF IsNumber(decision) THEN "number"
                  ELSE IF {"score", "comment"} \subseteq DOMAIN evaluation_result
                  THEN "light"
                  ELSE "default"
    IN  [key |-> <<"llm_judge_", evaluator_name>>,
         score |-> CASE branch = "yes_no" ->
                            IF decision = PyStr("YES") THEN PyFloat(1, 1) ELSE PyFloat(0, 1)
                     [] branch = "number" -> normalize_score(decision, DefaultScale)
                     [] branch = "light" -> evaluation_result["score"]
                     [] OTHER -> dict_get(evaluation_result, "score", PyFloat(0, 1)),
         value |-> CASE branch = "light" -> evaluation_result["score"]
                     [] OTHER -> dict_get(evaluation_result, "decision", PyStr("unknown")),
         comment |-> CASE branch = "light" -> evaluation_result["comment"]
                       [] OTHER -> dict_get(evaluation_result, "evaluation", PyStr(""))]

\* "if not result.get('error')": the records evaluate_and_add_feedback
\* forwards.
ToForward ==
    {name \in DOMAIN eval_results : "error" \notin DOMAIN eval_results[name]}

----------------------------------------------------------------------------
(* Evaluators: one evaluate_response call and the forwarding of its result *)

\* The evaluator the loop is at.
EvalPos == Len(evaluator_out) + 1

\* evaluate_response is called.
CallEvaluateResponse(evaluators) ==
    /\ eval_pc = "idle"
    /\ evaluator_service \in EvaluatorServices
    /\ evaluator_service = "ResponseEvaluatorService" => evaluators = PyNone
    /\ evaluators_arg' = evaluators
    /\ evaluators_to_run' =
           IF evaluator_service = "LLMEvaluator"
           THEN select_evaluators(evaluator_configs, evaluators)
           ELSE evaluator_configs
    /\ eval_pc' = "running"
    /\ UNCHANGED <<evaluator_service, evaluator_configs, evaluator_out, eval_results,
                   created_feedback>>
    /\ UNCHANGED <<input_filters, filter_vars, chat_vars, endpoint_vars, feedback_vars,
                   aux_vars>>

\* One pass of the loop of LLMEvaluator.evaluate_response: the evaluator is
\* awaited and its record stored.
LLMEvaluatorStep(out) ==
    /\ eval_pc = "running"
    /\ evaluator_service = "LLMEvaluator"
    /\ EvalPos <= Len(evaluators_to_run)
    /\ LET evaluator == evaluators_to_run[EvalPos]
       IN  /\ out \in ChainOutcomes(evaluator.type)
           /\ evaluator_out' = Append(evaluator_out, out)
           /\ eval_results' =
                  (evaluator.name :> llm_evaluator_record(evaluator, out)) @@ eval_results
    /\ UNCHANGED <<evaluator_service, evaluator_configs, evaluators_arg, evaluators_to_run,
                   eval_pc, created_feedback>>
    /\ UNCHANGED <<input_filters, filter_vars, chat_vars, endpoint_vars, feedback_vars,
                   aux_vars>>

\* One pass of the loop of ResponseEvaluatorService.evaluate_response: the
\* completion call is outside the try, so its exception ends the call.
GroqEvaluatorStep(out) ==
    /\ eval_pc = "running"
    /\ evaluator_service = "ResponseEvaluatorService"
    /\ EvalPos <= Len(evaluators_to_run)
    /\ LET evaluator == evaluators_to_run[EvalPos]
       IN  /\ evaluator_out' = Append(evaluator_out, out)
           /\ IF out.kind = "raises"
              THEN /\ eval_pc' = "raised"
                   /\ UNCHANGED eval_results
              ELSE /\ eval_results' =
                          (evaluator.name :> groq_evaluator_record(evaluator, out))
                              @@ eval_results
                   /\ UNCHANGED eval_pc
    /\ UNCHANGED <<evaluator_service, evaluator_configs, evaluators_arg, evaluators_to_run,
                   created_feedback>>
    /\ UNCHANGED <<input_filters, filter_vars, chat_vars, endpoint_vars, feedback_vars,
                   aux_vars>>

\* "return results"
EvaluateResponseReturns ==
    /\ eval_pc = "running"
    /\ EvalPos > Len(evaluators_to_run)
    /\ eval_pc' = "returned"
    /\ UNCHANGED <<evaluator_service, evaluator_configs, evaluators_arg, evaluators_to_run,
                   evaluator_out, eval_results, created_feedback>>
    /\ UNCHANGED <<input_filters, filter_vars, chat_vars, endpoint_vars, feedback_vars,
                   aux_vars>>

\* evaluate_and_add_feedback, after its evaluate_response call on all the
\* evaluators: _add_feedback_to_trace for every record without an error;
\* the trace store refuses those of `refused`, which are dropped.
AddFeedbackToTrace(refused) ==
    /\ eval_pc = "returned"
    /\ evaluator_service = "LLMEvaluator"
    /\ evaluators_arg = PyNone
    /\ refused \subseteq ToForward
    /\ created_feedback' =
           [name \in ToForward \ refused |-> format_llm_feedback(name, eval_results[name])]
    /\ eval_pc' = "forwarded"
    /\ UNCHANGED <<evaluator_service, evaluator_configs, evaluators_arg, evaluators_to_run,
                   evaluator_out, eval_results>>
    /\ UNCHANGED <<input_filters, filter_vars, chat_vars, endpoint_vars, feedback_vars,
                   aux_vars>>

InitEvaluators ==
    /\ evaluator_service \in EvaluatorServices
    /\ evaluator_configs \in EvaluatorSuites
    /\ evaluators_arg = PyNone
    /\ evaluators_to_run = <<>>
    /\ evaluator_out = <<>>
    /\ eval_results = <<>>
    /\ eval_pc = "idle"
    /\ created_feedback = <<>>
    /\ input_filters = <<>>
    /\ InitFiltersIdle /\ InitChatIdle /\ InitEndpointIdle /\ InitFeedbackIdle
    /\ InitAuxIdle

NextEvaluators ==
    \/ \E evaluators \in EvaluatorsArgs : CallEvaluateResponse(evaluators)
    \/ \E out \in ChainOutcomes("criteria") \cup ChainOutcomes("score_string") :
           LLMEvaluatorStep(out)
    \/ \E out \in GroqOutcomes : GroqEvaluatorStep(out)
    \/ EvaluateResponseReturns
    \/ \E refused \in SUBSET EvaluatorNames : AddFeedbackToTrace(refused)

SpecEvaluators == InitEvaluators /\ [][NextEvaluators]_vars


----------------------------------------------------------------------------
(* Properties of the evaluators                                            *)

EvaluateResponseReturned == eval_pc \in {"returned", "forwarded"}

\* The invocations made so far.
Invoked == 1..Len(evaluator_out)

\* Invocation i threw, or its output could not be parsed.
FailedEvaluation(i) ==
    \/ evaluator_out[i].kind \in {"raises", "text"}
    \/ evaluator_out[i].kind = "returns" /\ evaluator_out[i].result = PyNone

\* Every failed invocation left an error record for its evaluator and no
\* more, every other invocation a record without error, and the call went on
\* through all the selected evaluators.
Isolated ==
    /\ eval_pc # "raised"
    /\ \A i \in Invoked :
           LET name == evaluators_to_run[i].name
           IN  /\ name \in DOMAIN eval_results
               /\ IF FailedEvaluation(i)
                  THEN /\ {"error", "evaluator"} \subseteq DOMAIN eval_results[name]
                       /\ {"decision", "score"} \cap DOMAIN eval_results[name] = {}
                  ELSE "error" \notin DOMAIN eval_results[name]
    /\ EvaluateResponseReturned => Len(evaluator_out) = Len(evaluators_to_run)

\* The isolation as LLMEvaluator alone provides it.
LLMEvaluatorIsolated == evaluator_service = "LLMEvaluator" => Isolated

\* C13: evaluator isolation: within one evaluate_response call an evaluator
\* that throws or whose output fails to parse yields an error record for
\* itself only, with `error` and `evaluator` and without `decision` or
\* `score`; the other selected evaluators still run and return their records.
C13_EvaluatorIsolation == Isolated

\* Every entry's `evaluator` field is its key.
EvaluatorFieldIsKey ==
    \A name \in DOMAIN eval_results :
        /\ "evaluator" \in DOMAIN eval_results[name]
        /\ eval_results[name].evaluator = PyStr(name)

\* C14 as stated: the result map of evaluate_response has one entry per
\* selected evaluator, all the configured ones when no subset is given and
\* exactly the requested ones when a list of names is given, and each
\* entry's `evaluator` field equals its key.
C14_EntryPerRequestedEvaluator ==
    (evaluator_service = "LLMEvaluator" /\ EvaluateResponseReturned)
    => /\ DOMAIN eval_results =
              IF evaluators_arg = PyNone THEN EvaluatorNames ELSE evaluators_arg.items
       /\ EvaluatorFieldIsKey

\* C14, amended: the result map has one entry per configured evaluator when
\* no list or an empty list is given, and one entry per requested name that
\* is configured when a non-empty list is given; each entry's `evaluator`
\* field equals its key.
C14_EntryPerSelectedEvaluator ==
    (evaluator_service = "LLMEvaluator" /\ EvaluateResponseReturned)
    => /\ DOMAIN eval_results =
              IF evaluators_arg \in {PyNone, PyList({})} THEN EvaluatorNames
              ELSE evaluators_arg.items \cap EvaluatorNames
       /\ EvaluatorFieldIsKey

\* A call restricted to some of the configured evaluators has returned.
C14_Witness ==
    /\ evaluator_service = "LLMEvaluator"
    /\ EvaluateResponseReturned
    /\ evaluators_arg # PyNone
    /\ evaluators_arg.items # {}
    /\ evaluators_arg.items \subseteq EvaluatorNames
    /\ evaluators_arg.items # EvaluatorNames
    /\ DOMAIN eval_results = evaluators_arg.items

\* The records without error that LLMEvaluator stored for the evaluators of
\* one family.
SuccessfulOutcomes(evaluator_type) ==
    {eval_results[evaluators_to_run[i].name] : i \in
        {j \in Invoked :
            /\ evaluator_service = "LLMEvaluator"
            /\ evaluators_to_run[j].type = evaluator_type
            /\ "error" \notin DOMAIN eval_results[evaluators_to_run[j].name]}}

\* C15: in every successful score_string outcome `decision` equals `score`,
\* and both are the same integer from 1 to 10.
C15_ScoreStringDecisionIsScore ==
    \A outcome \in SuccessfulOutcomes("score_string") :
        /\ outcome.decision = outcome.score
        /\ outcome.score.py = "int"
        /\ outcome.score.int \in 1..ScoreStringMax

\* A call has returned a score_string outcome for a rating of 7, and one for
\* an evaluator result without a score field.
C15_Witness ==
    /\ EvaluateResponseReturned
    /\ \E i \in Invoked :
           /\ evaluators_to_run[i].type = "score_string"
           /\ evaluator_out[i].kind = "returns"
           /\ evaluator_out[i].result # PyNone
           /\ \/ "score" \notin DOMAIN evaluator_out[i].result
              \/ evaluator_out[i].result = [score |-> PyInt(7),
                                            reasoning |-> PyStr("reasoning")]
           /\ eval_results[evaluators_to_run[i].name] \in SuccessfulOutcomes("score_string")

\* C16: in every successful criteria outcome `decision` is "Y" or "N",
\* `score` is 0 or 1, and score is 1 exactly when decision is "Y", whatever
\* fields the underlying evaluator result carries or omits.
C16_CriteriaDecisionScore ==
    \A outcome \in SuccessfulOutcomes("criteria") :
        /\ outcome.decision \in {PyStr("Y"), PyStr("N")}
        /\ outcome.score \in {PyInt(0), PyInt(1)}
        /\ outcome.score = PyInt(1) <=> outcome.decision = PyStr("Y")

\* The evaluators of one family whose outcome reached the trace store.
Forwarded(evaluator_type) ==
    {i \in Invoked :
        /\ evaluators_to_run[i].type = evaluator_type
        /\ evaluators_to_run[i].name \in DOMAIN created_feedback}

\* C17: a score_string outcome with value v is forwarded to the trace store
\* with the score v / N, N the scale of the rating (7 of 10 gives 0.7), so
\* that the forwarded score never exceeds 1.
C17_ScoreStringNormalizedByScale ==
    \A i \in Forwarded("score_string") :
        LET name == evaluators_to_run[i].name
            v == eval_results[name].decision
        IN  /\ PyEq(created_feedback[name].score, PyFloat(v.int, ScoreStringMax))
            /\ PyLeq(created_feedback[name].score, PyFloat(1, 1))

\* C18: a criteria outcome is forwarded to the trace store with score 1.0
\* if its decision is "Y" or "YES" and with 0.0 otherwise, whatever its raw
\* `score` field holds.
C18_CriteriaForwardedByDecision ==
    \A i \in Forwarded("criteria") :
        LET name == evaluators_to_run[i].name
        IN  PyEq(created_feedback[name].score,
                 IF eval_results[name].decision \in {PyStr("Y"), PyStr("YES")}
                 THEN PyFloat(1, 1) ELSE PyFloat(0, 1))


----------------------------------------------------------------------------
(* Feedback normalizer: human feedback                                     *)

MaxFeedback == 2        \* human feedback submissions in one behaviour
RatingScale == 5        \* the scale of a human rating

\* feedback_type of a request to the human-feedback endpoint.
HumanFeedbackTypes == {"thumbs", "score"}

\* feedback_type as the recording functions tell it apart.
FeedbackTypes == {"thumbs", "score", "rating"}

\* value of a submission: a thumb, or a rating.
FeedbackValues == {PyStr("up"), PyStr("down")} \cup {PyInt(n) : n \in 1..RatingScale}

\* The thumbs score that does not look at the value.
thumbs_score_always_up(value) == PyFloat(1, 1)

\* "score = 1.0 if value == 'up' else 0.0"
thumbs_score(value) == IF value = PyStr("up") THEN PyFloat(1, 1) ELSE PyFloat(0, 1)

\* The score of LangSmithClient.record_human_feedback.
human_feedback_score(feedback_type, value) ==
    IF feedback_type = "thumbs" THEN thumbs_score(value)
    ELSE IF feedback_type = "rating" THEN normalize_score(value, RatingScale)
    ELSE PyNone

\* The feedback LangSmithClient.record_human_feedback hands to
\* create_feedback.
human_feedback_data(feedback_type, value) ==
    [key |-> <<"human_", feedback_type>>,
     score |-> human_feedback_score(feedback_type, value),
     value |-> value]

\* float(value) raises in FeedbackService.record_feedback.
float_raises(feedback_type, value) == feedback_type = "score" /\ ~IsNumber(value)

\* The feedback FeedbackService.record_feedback hands to create_feedback.
feedback_service_data(feedback_type, value) ==
    [key |-> feedback_type,
     score |-> IF feedback_type = "thumbs" THEN thumbs_score(value)
               ELSE IF feedback_type = "score"
               THEN PyFloat(Numerator(value), Denominator(value) * RatingScale)
               ELSE PyNone,
     value |-> value]

\* A request to the human-feedback endpoint: add_human_feedback hands it to
\* LangSmithClient.record_human_feedback, which normalizes it and calls
\* create_feedback; when that raises, the status is an error.
AddHumanFeedback(feedback_type, value, store_raises) ==
    /\ feedback_count < MaxFeedback
    /\ feedback_count' = feedback_count + 1
    /\ last_feedback' =
           [via |-> "add_human_feedback",
            feedback_type |-> feedback_type,
            value |-> value,
            status |-> IF store_raises THEN "error" ELSE "recorded",
            created |-> IF store_raises THEN PyNone
                        ELSE human_feedback_data(feedback_type, value)]
    /\ UNCHANGED <<input_filters, filter_vars, chat_vars, endpoint_vars, eval_vars, aux_vars>>

\* FeedbackService.record_feedback: without a trace store client it reports
\* an error; else it normalizes the value and calls create_feedback.
RecordFeedback(feedback_type, value, configured, store_raises) ==
    /\ feedback_count < MaxFeedback
    /\ feedback_count' = feedback_count + 1
    /\ LET failed == ~configured \/ float_raises(feedback_type, value) \/ store_raises
       IN  last_feedback' =
               [via |-> "FeedbackService",
                feedback_type |-> feedback_type,
                value |-> value,
                status |-> IF failed THEN "error" ELSE "recorded",
                created |-> IF failed THEN PyNone
                            ELSE feedback_service_data(feedback_type, value)]
    /\ UNCHANGED <<input_filters, filter_vars, chat_vars, endpoint_vars, eval_vars, aux_vars>>

InitFeedback ==
    /\ feedback_count = 0
    /\ last_feedback = PyNone
    /\ input_filters = <<>>
    /\ InitFiltersIdle /\ InitChatIdle /\ InitEndpointIdle /\ InitEvaluatorsIdle
    /\ InitAuxIdle

NextFeedback ==
    \/ \E feedback_type \in HumanFeedbackTypes, value \in FeedbackValues,
          store_raises \in BOOLEAN :
           AddHumanFeedback(feedback_type, value, store_raises)
    \/ \E feedback_type \in FeedbackTypes, value \in FeedbackValues,
          configured \in BOOLEAN, store_raises \in BOOLEAN :
           RecordFeedback(feedback_type, value, configured, store_raises)

SpecFeedback == InitFeedback /\ [][NextFeedback]_vars

----------------------------------------------------------------------------
(* Properties of the human feedback                                        *)

\* The last submission reached the trace store.
FeedbackCreated == last_feedback # PyNone /\ last_feedback.created # PyNone

\* C19: thumbs feedback is forwarded to the trace store with score 1.0 for
\* the value "up" and score 0.0 for the value "down", together with the raw
\* value.
C19_ThumbsScore ==
    (FeedbackCreated /\ last_feedback.feedback_type = "thumbs")
    => /\ last_feedback.value = PyStr("up")
              => last_feedback.created.score = PyFloat(1, 1)
       /\ last_feedback.value = PyStr("down")
              => last_feedback.created.score = PyFloat(0, 1)
       /\ last_feedback.created.value = last_feedback.value

\* A thumbs down sent to the endpoint reached the trace store.
C19_Witness ==
    /\ FeedbackCreated
    /\ last_feedback.via = "add_human_feedback"
    /\ last_feedback.feedback_type = "thumbs"
    /\ last_feedback.value = PyStr("down")
    /\ last_feedback.created.score = PyFloat(0, 1)

\* C20: a numeric human feedback request (feedback_type "score", a value
\* from 1 to 5) sent to the human-feedback endpoint is forwarded to the
\* trace store with score = value / 5, a number between 0 and 1.
C20_RatingNormalized ==
    (/\ FeedbackCreated
     /\ last_feedback.via = "add_human_feedback"
     /\ last_feedback.feedback_type = "score"
     /\ IsNumber(last_feedback.value))
    => /\ IsNumber(last_feedback.created.score)
       /\ PyEq(last_feedback.created.score,
               PyFloat(last_feedback.value.int, RatingScale))
       /\ PyLeq(PyFloat(0, 1), last_feedback.created.score)
       /\ PyLeq(last_feedback.created.score, PyFloat(1, 1))

----------------------------------------------------------------------------
(* Trace feedback: the evaluators of LangSmithClient                       *)

\* LightEvaluator.evaluators, in the order run_evaluations goes through them.
LightNames == <<"response_length", "language_detection", "content_safety">>
LightIdx == 1..Len(LightNames)

\* What a lightweight evaluator function does: it returns, or it raises.
LightOutcomes == {Returns(PyNone), Raises("TypeError")}

\* LightEvaluator.run_evaluations: name -> record.
run_evaluations(light_outs) ==
    [name \in {LightNames[i] : i \in LightIdx} |->
        IF light_outs[name].kind = "returns"
        THEN [score |-> PyFloat(1, 1), comment |-> PyStr("comment"),
              evaluator |-> PyStr(name)]
        ELSE [error |-> PyStr(light_outs[name].exception), evaluator |-> PyStr(name)]]

\* LLMEvaluator.evaluate_single for a configured evaluator.
evaluate_single_record(evaluator, out) ==
    IF out.kind = "returns"
    THEN parse_langchain_output(out.result, evaluator.type, evaluator.name)
    ELSE [error |-> PyStr("evaluation_failed"),
          details |-> PyStr(out.exception),
          evaluator |-> PyStr(evaluator.name)]

\* The outcomes the evaluator chains are driven with here: the two kinds of
\* exception and one result of each type.
TraceOutcomes(evaluator_type) ==
    InvocationFailures \cup
    {Returns(r) : r \in IF evaluator_type = "criteria"
                        THEN {[value |-> PyStr("Y"), score |-> PyInt(1),
                               reasoning |-> PyStr("reasoning")]}
                        ELSE {[score |-> PyInt(7), reasoning |-> PyStr("reasoning")]}}

\* The guard that lets every record through.
no_error_always(result) == TRUE

\* "if not result.get('error')"
no_error(result) == "error" \notin DOMAIN result \/ result["error"] = PyStr("")

\* The names _add_feedback_to_trace is called with: f"lightweight_{eval_name}"
\* for a lightweight record, the evaluator's name for an LLM record.
LightweightName(name) == [prefix |-> "lightweight_", name |-> name]
LLMName(name) == [prefix |-> "", name |-> name]

\* LangSmithClient._format_light_feedback
format_light_feedback(evaluator_name, evaluation_result) ==
    IF "error" \in DOMAIN evaluation_result
    THEN [key |-> <<"lightweight_", evaluator_name>>,
          score |-> PyInt(0),
          comment |-> <<"Error during evaluation: ", evaluation_result["error"]>>]
    ELSE [key |-> <<"lightweight_", evaluator_name>>,
          score |-> dict_get(evaluation_result, "score", PyNone),
          value |-> dict_get(evaluation_result, "value", PyNone),
          comment |-> dict_get(evaluation_result, "comment", PyNone)]

\* _add_feedback_to_trace up to its create_feedback call: the trace store
\* with the call it was given, which raised when `store_raises`.  Feedback
\* data without a value raises KeyError before the store is called.
add_feedback_to_trace(store, evaluator_name, evaluation_result, store_raises) ==
    LET feedback_data ==
            IF evaluator_name.prefix = "lightweight_"
            THEN format_light_feedback(evaluator_name.name, evaluation_result)
            ELSE format_llm_feedback(evaluator_name.name, evaluation_result)
    IN  IF "value" \notin DOMAIN feedback_data THEN store
        ELSE Append(store, [evaluator_name |-> evaluator_name,
                            key |-> feedback_data.key,
                            score |-> feedback_data.score,
                            value |-> feedback_data.value,
                            comment |-> feedback_data.comment,
                            raised |-> store_raises])

\* An exception of create_feedback that leaves _add_feedback_to_trace: the
\* awaiting method ends in its own except branch.
add_feedback_raises(call) ==
    [call EXCEPT !.pc = "returned",
                 !.returned = [error |-> PyStr("create_feedback failed")]]

\* The except branch of _add_feedback_to_trace: print, return None.
add_feedback_except(call) == call

----------------------------------------------------------------------------
(* Trace feedback: the evaluation methods and their callers                *)

\* The methods of LangSmithClient that evaluate, and the endpoint
\* /langsmith/evaluate_response, which picks one by the run id it is given.
TraceEntries ==
    {"evaluate_and_add_feedback", "evaluate_single_trace", "evaluate_trace_readonly",
     "evaluate_response_with_langsmith_feedback"}
NoRunId == ""
RunIds == {NoRunId, "run-1"}

\* What read_run gives: a run with prompt and response, a run without
\* them, or an exception.
RunsRead == {"found", "no_prompt", "raises"}

\* The awaits of a call, in order.
Evaluate(op, evaluator) == [op |-> op, evaluator |-> evaluator]
Feedback(evaluator_name) == [op |-> "feedback", evaluator_name |-> evaluator_name]

\* evaluate_and_add_feedback: the lightweight feedback, evaluate_response on
\* every evaluator, then the gathered feedback of the LLM records.
evaluate_and_add_feedback_steps(configs) ==
    [i \in LightIdx |-> Feedback(LightweightName(LightNames[i]))]
        \o [i \in 1..Len(configs) |-> Evaluate("evaluate_response", configs[i])]
        \o [i \in 1..Len(configs) |-> Feedback(LLMName(configs[i].name))]

\* The loop of evaluate_single_trace over the requested names: evaluate,
\* then add the feedback.
evaluate_single_trace_steps(selected) ==
    [k \in 1..(2 * Len(selected)) |->
        IF k % 2 = 1 THEN Evaluate("evaluate_single", selected[(k + 1) \div 2])
        ELSE Feedback(LLMName(selected[k \div 2].name))]

\* The evaluations of a method that adds no feedback.
evaluate_only_steps(op, selected) ==
    [i \in 1..Len(selected) |-> Evaluate(op, selected[i])]

\* "if evaluator_names:"
HasNames(evaluator_names) == evaluator_names # PyNone /\ evaluator_names # PyList({})

\* "if evaluator_name in self.evaluator_names"
Requested(configs, evaluator_names) ==
    SelectSeq(configs, LAMBDA c : c.name \in evaluator_names.items)

\* Whether the call goes through evaluate_and_add_feedback.
AddsAllFeedback(entry, run_id, evaluator_names) ==
    \/ entry = "evaluate_and_add_feedback"
    \/ entry = "evaluate_single_trace" /\ ~HasNames(evaluator_names)
    \/ entry = "evaluate_response_with_langsmith_feedback" /\ run_id # NoRunId

trace_steps(entry, run_id, evaluator_names, configs) ==
    IF AddsAllFeedback(entry, run_id, evaluator_names)
    THEN evaluate_and_add_feedback_steps(configs)
    ELSE IF entry = "evaluate_single_trace"
    THEN evaluate_single_trace_steps(Requested(configs, evaluator_names))
    ELSE IF entry = "evaluate_trace_readonly" /\ HasNames(evaluator_names)
    THEN evaluate_only_steps("evaluate_single", Requested(configs, evaluator_names))
    ELSE evaluate_only_steps("evaluate_response", configs)

\* The record a feedback step is about.
RecordOf(call, evaluator_name) ==
    IF evaluator_name.prefix = "lightweight_" THEN call.light[evaluator_name.name]
    ELSE call.results[evaluator_name.name]

\* The next await from position pos on: the feedback of a record with an
\* error is passed over.
RECURSIVE next_await(_, _)
next_await(call, pos) ==
    IF pos > Len(call.steps) THEN pos
    ELSE IF call.steps[pos].op = "feedback"
            /\ ~no_error(RecordOf(call, call.steps[pos].evaluator_name))
    THEN next_await(call, pos + 1)
    ELSE pos

Advance(call) == [call EXCEPT !.pos = next_await(call, call.pos + 1)]

\* A method is called.  The methods that take a run id read the run first
\* and return an error dict when it cannot be read or has no prompt.
CallTrace(entry, run_id, evaluator_names, run, light_outs) ==
    LET reads == entry \in {"evaluate_single_trace", "evaluate_trace_readonly"}
        with_light == AddsAllFeedback(entry, run_id, evaluator_names)
        call == [pc |-> "running",
                 entry |-> entry,
                 run_id |-> run_id,
                 evaluator_names |-> evaluator_names,
                 steps |-> trace_steps(entry, run_id, evaluator_names, evaluator_configs),
                 pos |-> 0,
                 light |-> IF with_light THEN run_evaluations(light_outs) ELSE <<>>,
                 results |-> <<>>,
                 returned |-> PyNone]
    IN  /\ trace_call.pc = "idle"
        /\ entry = "evaluate_response_with_langsmith_feedback" \/ run_id # NoRunId
        /\ reads \/ (evaluator_names = PyNone /\ run = "found")
        /\ with_light \/ \A name \in DOMAIN light_outs : light_outs[name].kind = "returns"
        /\ trace_call' =
               CASE run = "raises" ->
                        [call EXCEPT !.pc = "returned", !.steps = <<>>, !.light = <<>>,
                                     !.returned = [error |-> PyStr("read_run failed")]]
                 [] run = "no_prompt" ->
                        [call EXCEPT !.pc = "returned", !.steps = <<>>, !.light = <<>>,
                                     !.returned =
                                         [error |-> PyStr("Could not extract prompt and response from trace")]]
                 [] OTHER -> Advance(call)
        /\ UNCHANGED <<trace_store, evaluator_service, evaluator_configs, evaluators_arg,
                       evaluators_to_run, evaluator_out, eval_results, eval_pc,
                       created_feedback>>
        /\ UNCHANGED <<input_filters, filter_vars, chat_vars, endpoint_vars, feedback_vars,
                       task_vars, pool_vars>>

AtStep(op_set) ==
    /\ trace_call.pc = "running"
    /\ trace_call.pos <= Len(trace_call.steps)
    /\ trace_call.steps[trace_call.pos].op \in op_set

\* The awaited evaluator returns or raises, and its record is stored.
TraceEvaluates(out) ==
    /\ AtStep({"evaluate_response", "evaluate_single"})
    /\ LET step == trace_call.steps[trace_call.pos]
           record == IF step.op = "evaluate_single"
                     THEN evaluate_single_record(step.evaluator, out)
                     ELSE llm_evaluator_record(step.evaluator, out)
       IN  /\ out \in TraceOutcomes(step.evaluator.type)
           /\ trace_call' =
                  Advance([trace_call EXCEPT
                              !.results = (step.evaluator.name :> record) @@ @])
    /\ UNCHANGED <<trace_store, eval_vars>>
    /\ UNCHANGED <<input_filters, filter_vars, chat_vars, endpoint_vars, feedback_vars,
                   task_vars, pool_vars>>

\* _add_feedback_to_trace runs for the record of this step.
TraceAddsFeedback(store_raises) ==
    /\ AtStep({"feedback"})
    /\ LET evaluator_name == trace_call.steps[trace_call.pos].evaluator_name
           store == add_feedback_to_trace(trace_store, evaluator_name,
                                          RecordOf(trace_call, evaluator_name),
                                          store_raises)
       IN  /\ trace_store' = store
           /\ trace_call' = IF store_raises \/ store = trace_store
                            THEN add_feedback_except(Advance(trace_call))
                            ELSE Advance(trace_call)
    /\ UNCHANGED eval_vars
    /\ UNCHANGED <<input_filters, filter_vars, chat_vars, endpoint_vars, feedback_vars,
                   task_vars, pool_vars>>

\* "return evaluation_results" / "return results"
TraceReturns ==
    /\ trace_call.pc = "running"
    /\ trace_call.pos > Len(trace_call.steps)
    /\ trace_call' = [trace_call EXCEPT !.pc = "returned",
                                        !.returned = trace_call.light @@ trace_call.results]
    /\ UNCHANGED <<trace_store, eval_vars>>
    /\ UNCHANGED <<input_filters, filter_vars, chat_vars, endpoint_vars, feedback_vars,
                   task_vars, pool_vars>>

\* The names an endpoint passes on: none, or a list of names.
TraceNamesArgs ==
    {PyNone} \cup {PyList(names) : names \in SUBSET (EvaluatorNames \cup {NotConfigured})}

InitTrace ==
    /\ evaluator_service = "LLMEvaluator"
    /\ evaluator_configs \in EvaluatorSuites
    /\ evaluators_arg = PyNone
    /\ evaluators_to_run = <<>>
    /\ evaluator_out = <<>>
    /\ eval_results = <<>>
    /\ eval_pc = "idle"
    /\ created_feedback = <<>>
    /\ InitTraceIdle
    /\ input_filters = <<>>
    /\ InitFiltersIdle /\ InitChatIdle /\ InitEndpointIdle /\ InitFeedbackIdle
    /\ InitTasksIdle /\ InitPoolIdle

NextTrace ==
    \/ \E entry \in TraceEntries, run_id \in RunIds, evaluator_names \in TraceNamesArgs,
          run \in RunsRead,
          light_outs \in [{LightNames[i] : i \in LightIdx} -> LightOutcomes] :
           CallTrace(entry, run_id, evaluator_names, run, light_outs)
    \/ \E out \in TraceOutcomes("criteria") \cup TraceOutcomes("score_string") :
           TraceEvaluates(out)
    \/ \E store_raises \in BOOLEAN : TraceAddsFeedback(store_raises)
    \/ TraceReturns

SpecTrace == InitTrace /\ [][NextTrace]_vars

----------------------------------------------------------------------------
(* Properties of the trace feedback                                        *)

TraceReturned == trace_call.pc = "returned"

\* The calls that add no feedback by design.
ReadOnlyCall ==
    \/ trace_call.entry = "evaluate_trace_readonly"
    \/ /\ trace_call.entry = "evaluate_response_with_langsmith_feedback"
       /\ trace_call.run_id = NoRunId

\* The evaluators whose record the call has to return.
ExpectedEntries ==
    IF AddsAllFeedback(trace_call.entry, trace_call.run_id, trace_call.evaluator_names)
    THEN EvaluatorNames \cup {LightNames[i] : i \in LightIdx}
    ELSE IF HasNames(trace_call.evaluator_names)
    THEN EvaluatorNames \cap trace_call.evaluator_names.items
    ELSE EvaluatorNames

StoreIdx == 1..Len(trace_store)

\* C21: a create_feedback call that raises is not fatal: the method still
\* returns the complete evaluation results, one record per evaluator, and
\* the feedback of every other record without an error was still attempted.
C21_FeedbackFailureNonFatal ==
    (TraceReturned /\ \E k \in StoreIdx : trace_store[k].raised)
        => /\ DOMAIN trace_call.returned = ExpectedEntries
           /\ \A name \in ExpectedEntries :
                  /\ trace_call.returned[name].evaluator = PyStr(name)
                  /\ "error" \notin DOMAIN trace_call.returned[name]
                         => \E k \in StoreIdx : trace_store[k].evaluator_name.name = name

\* evaluate_and_add_feedback returned although the first lightweight
\* feedback and an LLM feedback raised; a feedback after each was accepted.
C21_Witness ==
    /\ TraceReturned
    /\ trace_call.entry = "evaluate_and_add_feedback"
    /\ Len(trace_store) >= 4
    /\ trace_store[1].raised
    /\ trace_store[1].evaluator_name.prefix = "lightweight_"
    /\ ~trace_store[2].raised
    /\ \E k \in StoreIdx :
           /\ k < Len(trace_store)
           /\ trace_store[k].raised
           /\ trace_store[k].evaluator_name.prefix = ""
           /\ ~trace_store[Len(trace_store)].raised
    /\ DOMAIN trace_call.returned = ExpectedEntries

\* C30: the read-only evaluations, evaluate_trace_readonly and the
\* evaluate_response endpoint without a run id, make no create_feedback
\* call; on the other paths create_feedback is called only for records that
\* carry no error.
C30_ReadOnlyWritesNothing ==
    trace_call.pc # "idle"
        => /\ ReadOnlyCall => trace_store = <<>>
           /\ \A k \in StoreIdx :
                  LET evaluator_name == trace_store[k].evaluator_name
                      from == IF evaluator_name.prefix = "lightweight_"
                              THEN trace_call.light ELSE trace_call.results
                  IN  /\ evaluator_name.name \in DOMAIN from
                      /\ "error" \notin DOMAIN from[evaluator_name.name]

\* evaluate_trace_readonly returned two records, one of them without an
\* error, and the trace store was never called.
C30_Witness ==
    /\ TraceReturned
    /\ trace_call.entry = "evaluate_trace_readonly"
    /\ Cardinality(DOMAIN trace_call.returned) = 2
    /\ \E name \in DOMAIN trace_call.returned :
           "error" \notin DOMAIN trace_call.returned[name]
    /\ \E name \in DOMAIN trace_call.returned :
           "error" \in DOMAIN trace_call.returned[name]
    /\ trace_store = <<>>

----------------------------------------------------------------------------
(* Properties of the evaluation tasks                                      *)

\* The tasks that take a step in this transition.
SteppingTasks == {t \in DOMAIN tasks : tasks'[t].pc # tasks[t].pc}

\* C22: the evaluation task of a completed turn is fire-and-forget: the
\* turn has returned its response while the task is anywhere from created
\* to done, and no step of a task changes a session history or a returned
\* response.
C22_BackgroundTaskFireAndForget ==
    [][/\ \A t \in DOMAIN tasks :
              /\ turns[t].pc = "completed"
              /\ turns[t].response = tasks[t].response
       /\ SteppingTasks # {} => UNCHANGED <<chat_history, turns>>]_vars

\* Two turns of one session completed: the task of the first ran to its
\* end, with an error, and the task of the second has not run yet.
C22_Witness ==
    /\ 1 \in DOMAIN tasks
    /\ tasks[1].pc = "done"
    /\ tasks[1].result.error
    /\ Len(turns) >= 2
    /\ turns[2].session_id = turns[1].session_id
    /\ turns[2].pc = "completed"
    /\ 2 \in DOMAIN tasks
    /\ tasks[2].pc = "pending"
    /\ Len(chat_history[turns[1].session_id]) >= 4

----------------------------------------------------------------------------
(* LLM client pool: LLMManager and the callers of get_llm                  *)

MaxGetLlm == 3          \* get_llm calls in one behaviour

\* The (provider, model, inference parameters) a client is asked for;
\* cache_key is the text of the three.
LLMKeys ==
    {[provider |-> "GROQ", model |-> "llama3-8b-8192", inference |-> "temperature=0.0"],
     [provider |-> "GROQ", model |-> "llama3-8b-8192", inference |-> "temperature=0.7"],
     [provider |-> "OPENAI", model |-> "gpt-4o", inference |-> "temperature=0.0"]}

\* os.getenv("GROQ_API_KEY")
ApiKeys == {"", "gsk_key"}

\* What a get_llm call that raised ValueError handed out.
NoClient == 0

\* The client objects constructed so far, and the next one.
ClientsCreated ==
    UNION {{managers[m][k] : k \in DOMAIN managers[m]} : m \in 1..Len(managers)}
NewClient == Cardinality(ClientsCreated) + 1

\* LLMManager.get_llm on one manager's cache: the cache afterwards, and the
\* client returned (NoClient when ValueError is raised).
get_llm_cache(cache, key, api_key) ==
    IF key \in DOMAIN cache THEN cache
    ELSE IF key.provider # "GROQ" \/ api_key = "" THEN cache
    ELSE (key :> NewClient) @@ cache

get_llm(cache, key, api_key) ==
    LET after == get_llm_cache(cache, key, api_key)
    IN  IF key \in DOMAIN after THEN after[key] ELSE NoClient

\* get_llm on a manager that is kept: self.llm_manager of a service.
GetLlm(m, key, api_key) ==
    /\ Len(handed) < MaxGetLlm
    /\ m \in 1..Len(managers)
    /\ managers' = [managers EXCEPT ![m] = get_llm_cache(@, key, api_key)]
    /\ handed' = Append(handed, [by |-> "llm_manager.get_llm", manager |-> m, key |-> key,
                                 llm |-> get_llm(managers[m], key, api_key)])
    /\ UNCHANGED <<input_filters, filter_vars, chat_vars, endpoint_vars, eval_vars,
                   feedback_vars, trace_vars, task_vars>>

\* ChatService.__init__: a new LLMManager, asked for the main LLM.
ChatServiceInit(key, api_key) ==
    /\ Len(handed) < MaxGetLlm
    /\ managers' = Append(managers, get_llm_cache(<<>>, key, api_key))
    /\ handed' = Append(handed, [by |-> "ChatService.__init__",
                                 manager |-> Len(managers) + 1, key |-> key,
                                 llm |-> get_llm(<<>>, key, api_key)])
    /\ UNCHANGED <<input_filters, filter_vars, chat_vars, endpoint_vars, eval_vars,
                   feedback_vars, trace_vars, task_vars>>

\* _create_filter_llm, called by every run of a filter: a new LLMManager,
\* asked for the filter's classifier.
CreateFilterLlm(key, api_key) ==
    /\ Len(handed) < MaxGetLlm
    /\ managers' = Append(managers, get_llm_cache(<<>>, key, api_key))
    /\ handed' = Append(handed, [by |-> "_create_filter_llm",
                                 manager |-> Len(managers) + 1, key |-> key,
                                 llm |-> get_llm(<<>>, key, api_key)])
    /\ UNCHANGED <<input_filters, filter_vars, chat_vars, endpoint_vars, eval_vars,
                   feedback_vars, trace_vars, task_vars>>

InitPool ==
    /\ managers = <<>>
    /\ handed = <<>>
    /\ input_filters = <<>>
    /\ InitFiltersIdle /\ InitChatIdle /\ InitEndpointIdle /\ InitEvaluatorsIdle
    /\ InitFeedbackIdle /\ InitTraceIdle /\ InitTasksIdle

NextPool ==
    \/ \E m \in 1..Len(managers), key \in LLMKeys, api_key \in ApiKeys : GetLlm(m, key, api_key)
    \/ \E key \in LLMKeys, api_key \in ApiKeys : ChatServiceInit(key, api_key)
    \/ \E key \in LLMKeys, api_key \in ApiKeys : CreateFilterLlm(key, api_key)

SpecPool == InitPool /\ [][NextPool]_vars

----------------------------------------------------------------------------
(* Properties of the LLM client pool                                       *)

HandedIdx == 1..Len(handed)

\* Within one LLMManager a key is answered with one client, created once.
SameManagerSameClient ==
    \A i, j \in HandedIdx :
        (/\ handed[i].manager = handed[j].manager
         /\ handed[i].key = handed[j].key
         /\ handed[i].llm # NoClient
         /\ handed[j].llm # NoClient)
            => handed[i].llm = handed[j].llm

\* C23: two requests for the same (provider, model, inference parameters)
\* that are both answered obtain the same client handle, the requests of
\* the filter classifiers on successive filter runs included.
C23_SameKeySameHandle ==
    \A i, j \in HandedIdx :
        (/\ handed[i].key = handed[j].key
         /\ handed[i].llm # NoClient
         /\ handed[j].llm # NoClient)
            => handed[i].llm = handed[j].llm

----------------------------------------------------------------------------
(* Properties of the chat endpoint's answers                               *)

\* The template responses of the configured filters.
TemplateResponses ==
    {Get(input_filters[i].template_response, DefaultTemplate) : i \in FilterIdx}

\* C24: in every ChatResponse of the chat endpoint, filter_triggered is true
\* exactly when the response text is a filter's template response, and when
\* it is false the response is the completion of the main LLM.
C24_FilterTriggeredIffTemplate ==
    \A r \in Responded :
        /\ requests[r].filter_triggered <=> requests[r].response \in TemplateResponses
        /\ ~requests[r].filter_triggered => requests[r].response = Completions[r]

----------------------------------------------------------------------------
(* Properties of the filter configuration                                  *)

\* The FilterSpecs with a configuration error: no system prompt.
Misconfigured == {i \in FilterIdx : input_filters[i].system_prompt = Missing}

\* C25: a configuration error of a FilterSpec reaches the caller when the
\* filter chain is built; it never comes out of a classification as "safe".
C25_ConfigErrorNotSafe ==
    \A i \in Misconfigured : results[i] # Pending => results[i][1] # "safe"

\* The requests whose turn is over.
Ended == {r \in ReqIdx : requests[r].path # ""}

\* C26: a chat turn ends blocked, completed or failed; a turn whose main
\* LLM call raised ends failed with an answer that carries a fallback text
\* and the session id, and never the text of the exception.
C26_FailedTurnReturnsFallback ==
    \A r \in Ended :
        /\ requests[r].path \in {"blocked", "blocked_in_handle_chat", "completed", "failed"}
        /\ requests[r].path = "failed"
               => /\ requests[r].response # NoResponse
                  /\ requests[r].returned_session_id # Missing
                  /\ requests[r].detail # LLMExceptionText

\* C28: within one chat turn the classifier of each configured FilterSpec is
\* invoked at most once.
C28_ClassifierInvokedAtMostOnce ==
    \A r \in ReqIdx : \A i \in FilterIdx : requests[r].classifier_calls[i] <= 1

----------------------------------------------------------------------------
(* Properties of the order of the history operations                       *)

\* The text without whitespace at either end that `query` holds between
\* whitespace only.
IsStripped(content, query) ==
    /\ content = <<>> \/ (Head(content) \notin Whitespace
                            /\ content[Len(content)] \notin Whitespace)
    /\ \E i \in 1..(Len(query) + 1), j \in 0..Len(query) :
           /\ content = SubSeq(query, i, j)
           /\ \A k \in (1..(i - 1)) \cup ((j + 1)..Len(query)) : query[k] \in Whitespace

\* The list is a leading system message, if `full` starts with one, and
\* then a contiguous suffix of the rest of `full`.
IsSystemAndSuffix(kept, full) ==
    LET system == IF Len(full) > 0 /\ full[1].role = "system" THEN <<full[1]>> ELSE <<>>
    IN  \E n \in 0..(Len(full) - Len(system)) : kept = system \o LastN(full, n)

\* C27: a turn that completes stores the stripped user message and then
\* the completion, and trims only after that: storing the user message
\* lengthens the session's list by one (two with the system message, on the
\* session's first turn), storing the completion by one more when nothing
\* is trimmed, and what a trim keeps is the leading system message and then
\* a contiguous suffix of the list as it was with the completion appended,
\* max_history entries at most.
C27_AppendOrderThenTrim ==
    [][\A t \in TurnIdx :
          LET s == turns[t].session_id
              before == IF s \in DOMAIN chat_history THEN chat_history[s] ELSE <<>>
              after == chat_history'[s]
              full == Append(before, [role |-> "assistant", turn |-> t])
          IN  /\ (turns[t].pc = "filtering" /\ turns'[t].pc = "generating") =>
                    /\ Len(after) = Len(before) + (IF turns'[t].inserted_system THEN 2 ELSE 1)
                    /\ turns'[t].inserted_system <=> (system_prompt # "" /\ before = <<>>)
                    /\ SubSeq(after, Len(after) - Len(before), Len(after) - 1) = before
                    /\ after[Len(after)].role = "user"
                    /\ after[Len(after)].turn = t
                    /\ IsStripped(after[Len(after)].content, Queries[t])
              /\ (turns[t].pc = "generating" /\ turns'[t].pc = "completed") =>
                    /\ Len(full) <= max_history => after = full
                    /\ Len(full) > max_history =>
                          /\ Len(after) <= max_history
                          /\ IsSystemAndSuffix(after, full)]_vars

\* A completed turn's exchange was stored untrimmed on a session that had a
\* system message and an earlier exchange, and a later completed turn of
\* the session was trimmed to the system message and the newest entries.
C27_Witness ==
    /\ system_prompt # ""
    /\ max_history = 4
    /\ Len(turns) = 3
    /\ turns[1].session_id = turns[2].session_id
    /\ turns[2].session_id = turns[3].session_id
    /\ \A t \in TurnIdx : turns[t].pc = "completed"
    /\ LET h == chat_history[turns[1].session_id]
       IN  /\ Len(h) = 4
           /\ h[1].role = "system"
           /\ h[2].role = "assistant" /\ h[2].turn = 2
           /\ h[3] = HumanMessage(3)
           /\ h[3].content = <<"h", " ", "i">>
           /\ h[4].role = "assistant" /\ h[4].turn = 3

----------------------------------------------------------------------------
(* Properties of the sessions' independence                                *)

\* The sessions other than s that have a history before or after the step.
OtherSessions(s) == (DOMAIN chat_history \cup DOMAIN chat_history') \ {s}

====
